---- MODULE Spec2Model ----
(***************************************************************************)
(* Semantic-diff prompting pipeline: the batch orchestrator                *)
(* (run_video_diff.py), the retrying model client (vlm_client.py) and the  *)
(* result files they leave on disk.                                        *)
(***************************************************************************)
EXTENDS Integers, Sequences, FiniteSets, TLC

(* ------------------------------------------------------------------ *)
(* Bounds of the model                                                 *)
(* ------------------------------------------------------------------ *)
\* largest value of the max_frames parameter that is explored
MaxCap == 3
\* number of dict items one write of json.dump carries to the file
DumpItems == 7
\* number of times main() is started (a run after a crash or a kill is a re-run)
MaxRuns == 2

(* ------------------------------------------------------------------ *)
(* Program constants                                                   *)
(* ------------------------------------------------------------------ *)
\* safe_openai_call(self, fn, retries=5)
retries == 5
\* time.sleep(5) after an APIError
API_ERROR_WAIT == 5

\* diff_texts starts with this fixed text (run_video_diff.py:114)
SENTINEL ==
    <<"I","n","i","t","i","a","l"," ","f","r","a","m","e","."," ","N","o"," ",
      "p","r","e","v","i","o","u","s"," ","f","r","a","m","e"," ","t","o"," ",
      "c","o","m","p","a","r","e",".">>

(* ------------------------------------------------------------------ *)
(* The frame store: frames/<class>/<video_id>/<files>                  *)
(* ------------------------------------------------------------------ *)
\* file names that may lie in a frame directory, as (stem, extension)
FN(s, e) == [stem |-> s, ext |-> e]

\* code-point order of the stems used: upper case sorts before lower case
StemOrder == <<"B", "a", "b", "c">>

StemRank(s) == CHOOSE k \in 1..Len(StemOrder) : StemOrder[k] = s

\* str.lower() on an extension
LowerExt(e) ==
    CASE e = ".PNG" -> ".png"
      [] e = ".JPG" -> ".jpg"
      [] OTHER -> e

\* f.lower().endswith((".jpg", ".jpeg", ".png"))
IsImageFile(f) == LowerExt(f.ext) \in {".jpg", ".jpeg", ".png"}

\* Python's str comparison, as used by sorted(); stems are distinct in a directory
FileLess(f, g) == StemRank(f.stem) < StemRank(g.stem)

RECURSIVE SortedFiles(_)
SortedFiles(S) ==
    IF S = {} THEN <<>>
    ELSE LET m == CHOOSE f \in S : \A g \in S \ {f} : FileLess(f, g)
         IN  <<m>> \o SortedFiles(S \ {m})

\* load_images_in_order: the image files of the directory, sorted by name
load_images_in_order(dir) == SortedFiles({f \in dir : IsImageFile(f)})

\* directory listings a video may have: 0, 1 and 3 image files
Dir0 == {FN("b", ".txt")}

Dir1 == {FN("a", ".jpg")}

Dir3 == {FN("c", ".jpeg"), FN("a", ".jpg"), FN("B", ".PNG"), FN("b", ".txt")}

\* images[:max_frames]
Truncate(s, n) == SubSeq(s, 1, n)

(* ------------------------------------------------------------------ *)
(* Text: a str is a sequence of one-character strings                  *)
(* ------------------------------------------------------------------ *)
UPPER == <<"A","B","C","D","E","F","G","H","I","J","K","L","M",
           "N","O","P","Q","R","S","T","U","V","W","X","Y","Z">>

LOWER == <<"a","b","c","d","e","f","g","h","i","j","k","l","m",
           "n","o","p","q","r","s","t","u","v","w","x","y","z">>

DIGITS == {"0","1","2","3","4","5","6","7","8","9"}

\* the characters str.split() and str.strip() treat as white space
WHITESPACE == {" ", "\n", "\t"}

\* str.lower(), one character
LowerChar(c) ==
    IF \E k \in 1..Len(UPPER) : UPPER[k] = c
    THEN LOWER[CHOOSE k \in 1..Len(UPPER) : UPPER[k] = c]
    ELSE c

\* str.lower()
Lower(s) == [k \in 1..Len(s) |-> LowerChar(s[k])]

\* the character class [a-z0-9]
IsAlnum(c) == c \in {LOWER[k] : k \in 1..Len(LOWER)} \cup DIGITS

\* re.sub(r"[^a-z0-9]+", " ", text): every maximal run of other characters
\* becomes one space
RECURSIVE ReSubRuns(_, _)
ReSubRuns(s, inRun) ==
    IF s = <<>> THEN <<>>
    ELSE IF IsAlnum(Head(s)) THEN <<Head(s)>> \o ReSubRuns(Tail(s), FALSE)
    ELSE (IF inRun THEN <<>> ELSE <<" ">>) \o ReSubRuns(Tail(s), TRUE)

re_sub_non_alnum(s) == ReSubRuns(s, FALSE)

\* str.split(): the maximal runs of non-white-space characters, in order
RECURSIVE SplitAcc(_, _, _)
SplitAcc(s, cur, acc) ==
    IF s = <<>> THEN (IF cur = <<>> THEN acc ELSE Append(acc, cur))
    ELSE IF Head(s) \in WHITESPACE
         THEN SplitAcc(Tail(s), <<>>, IF cur = <<>> THEN acc ELSE Append(acc, cur))
         ELSE SplitAcc(Tail(s), Append(cur, Head(s)), acc)

split(s) == SplitAcc(s, <<>>, <<>>)

\* str.strip()
RECURSIVE LStrip(_)
LStrip(s) ==
    IF s # <<>> /\ Head(s) \in WHITESPACE THEN LStrip(Tail(s)) ELSE s

RECURSIVE RStrip(_)
RStrip(s) ==
    IF s # <<>> /\ s[Len(s)] \in WHITESPACE THEN RStrip(SubSeq(s, 1, Len(s) - 1)) ELSE s

strip(s) == RStrip(LStrip(s))

\* sep.join(texts)
RECURSIVE join(_, _)
join(sep, texts) ==
    IF texts = <<>> THEN <<>>
    ELSE IF Len(texts) = 1 THEN texts[1]
    ELSE texts[1] \o sep \o join(sep, Tail(texts))

SeqToSet(s) == {s[k] : k \in 1..Len(s)}

(* ------------------------------------------------------------------ *)
(* Floats, as exact fractions in lowest terms                          *)
(* ------------------------------------------------------------------ *)
RECURSIVE GCD(_, _)
GCD(a, b) == IF b = 0 THEN a ELSE GCD(b, a % b)

\* n / d
Frac(n, d) ==
    IF n = 0 THEN [num |-> 0, den |-> 1]
    ELSE [num |-> n \div GCD(n, d), den |-> d \div GCD(n, d)]

\* 0.0
Zero == Frac(0, 1)

FracAdd(x, y) == Frac(x.num * y.den + y.num * x.den, x.den * y.den)

\* x / n for an int n > 0
FracDivInt(x, n) == Frac(x.num, x.den * n)

\* sum(list of floats)
RECURSIVE FracSum(_)
FracSum(s) == IF s = <<>> THEN Zero ELSE FracAdd(Head(s), FracSum(Tail(s)))

(* ------------------------------------------------------------------ *)
(* metrics.py                                                          *)
(* ------------------------------------------------------------------ *)
tokenize_for_overlap(text) == split(re_sub_non_alnum(Lower(text)))

\* the union counted as len(w1) + len(w2): shared words count twice
jaccard_overlap_CountsBoth(t1, t2) ==
    LET w1 == SeqToSet(tokenize_for_overlap(t1))
        w2 == SeqToSet(tokenize_for_overlap(t2))
    IN  IF w1 = {} /\ w2 = {} THEN Zero
        ELSE Frac(Cardinality(w1 \cap w2), Cardinality(w1) + Cardinality(w2))

jaccard_overlap(t1, t2) ==
    LET w1 == SeqToSet(tokenize_for_overlap(t1))
        w2 == SeqToSet(tokenize_for_overlap(t2))
    IN  IF w1 = {} /\ w2 = {} THEN Zero
        ELSE Frac(Cardinality(w1 \cap w2), Cardinality(w1 \cup w2))

\* the loop written as range(len(texts)): texts[-1] is paired with texts[0]
compute_lexical_redundancy_FromZero(texts) ==
    IF Len(texts) <= 1 THEN <<Zero, <<>> >>
    ELSE LET overlaps == [k \in 1..Len(texts) |->
                             jaccard_overlap(
                                 texts[IF k = 1 THEN Len(texts) ELSE k - 1], texts[k])]
         IN  <<FracDivInt(FracSum(overlaps), Len(overlaps)), overlaps>>

\* returns (avg_overlap, overlaps)
compute_lexical_redundancy(texts) ==
    IF Len(texts) <= 1 THEN <<Zero, <<>> >>
    ELSE LET overlaps == [k \in 1..(Len(texts) - 1) |->
                             jaccard_overlap(texts[k], texts[k + 1])]
         IN  <<FracDivInt(FracSum(overlaps), Len(overlaps)), overlaps>>

VOCAB_default ==
    { <<"m","o","v","e">>, <<"m","o","v","e","s">>,
      <<"m","o","v","i","n","g">>, <<"m","o","v","e","d">>,
      <<"p","u","s","h">>, <<"p","u","s","h","e","s">>,
      <<"p","u","s","h","i","n","g">>, <<"p","u","s","h","e","d">>,
      <<"p","u","l","l">>, <<"p","u","l","l","s">>,
      <<"p","u","l","l","i","n","g">>, <<"p","u","l","l","e","d">>,
      <<"l","i","f","t">>, <<"l","i","f","t","s">>,
      <<"l","i","f","t","i","n","g">>, <<"l","i","f","t","e","d">>,
      <<"o","p","e","n">>, <<"o","p","e","n","s">>,
      <<"o","p","e","n","i","n","g">>, <<"o","p","e","n","e","d">>,
      <<"c","l","o","s","e">>, <<"c","l","o","s","e","s">>,
      <<"c","l","o","s","i","n","g">>, <<"c","l","o","s","e","d">> }

VOCAB_bending_something_so_that_it_deforms ==
    { <<"b","e","n","d">>, <<"b","e","n","d","s">>,
      <<"b","e","n","d","i","n","g">>, <<"b","e","n","t">>,
      <<"d","e","f","o","r","m">>, <<"d","e","f","o","r","m","s">>,
      <<"d","e","f","o","r","m","i","n","g">>, <<"d","e","f","o","r","m","e","d">>,
      <<"c","u","r","v","e">>, <<"c","u","r","v","e","s">>,
      <<"c","u","r","v","i","n","g">>, <<"c","u","r","v","e","d">>,
      <<"w","a","r","p">>, <<"w","a","r","p","s">>,
      <<"w","a","r","p","i","n","g">>, <<"w","a","r","p","e","d">>,
      <<"f","l","e","x">>, <<"f","l","e","x","e","s">>,
      <<"f","l","e","x","i","n","g">>, <<"f","l","e","x","e","d">>,
      <<"t","w","i","s","t">>, <<"t","w","i","s","t","s">>,
      <<"t","w","i","s","t","i","n","g">>, <<"t","w","i","s","t","e","d">> }

VOCAB_closing_something ==
    { <<"c","l","o","s","e">>, <<"c","l","o","s","e","s">>,
      <<"c","l","o","s","i","n","g">>, <<"c","l","o","s","e","d">>,
      <<"s","h","u","t">>, <<"s","h","u","t","s">>,
      <<"s","h","u","t","t","i","n","g">>, <<"s","e","a","l">>,
      <<"s","e","a","l","s">>, <<"s","e","a","l","i","n","g">>,
      <<"s","e","a","l","e","d">> }

VOCAB_folding_something ==
    { <<"f","o","l","d">>, <<"f","o","l","d","s">>,
      <<"f","o","l","d","i","n","g">>, <<"f","o","l","d","e","d">>,
      <<"c","r","e","a","s","e">>, <<"c","r","e","a","s","e","s">>,
      <<"c","r","e","a","s","i","n","g">>, <<"c","r","e","a","s","e","d">>,
      <<"f","l","a","t","t","e","n">>, <<"f","l","a","t","t","e","n","s">>,
      <<"f","l","a","t","t","e","n","i","n","g">>, <<"f","l","a","t","t","e","n","e","d">> }

VOCAB_pouring_something_into_something ==
    { <<"p","o","u","r">>, <<"p","o","u","r","s">>,
      <<"p","o","u","r","i","n","g">>, <<"p","o","u","r","e","d">>,
      <<"f","l","o","w">>, <<"f","l","o","w","s">>,
      <<"f","l","o","w","i","n","g">>, <<"f","l","o","w","e","d">>,
      <<"f","i","l","l">>, <<"f","i","l","l","s">>,
      <<"f","i","l","l","i","n","g">>, <<"f","i","l","l","e","d">>,
      <<"s","t","r","e","a","m">>, <<"s","t","r","e","a","m","s">>,
      <<"s","t","r","e","a","m","i","n","g">>, <<"s","t","r","e","a","m","e","d">> }

VOCAB_pouring_something_into_something_until_it_overflows ==
    { <<"p","o","u","r">>, <<"p","o","u","r","s">>,
      <<"p","o","u","r","i","n","g">>, <<"p","o","u","r","e","d">>,
      <<"f","l","o","w">>, <<"f","l","o","w","s">>,
      <<"f","l","o","w","i","n","g">>, <<"f","l","o","w","e","d">>,
      <<"f","i","l","l">>, <<"f","i","l","l","s">>,
      <<"f","i","l","l","i","n","g">>, <<"f","i","l","l","e","d">>,
      <<"o","v","e","r","f","l","o","w">>, <<"o","v","e","r","f","l","o","w","s">>,
      <<"o","v","e","r","f","l","o","w","i","n","g">>, <<"o","v","e","r","f","l","o","w","e","d">>,
      <<"s","p","i","l","l">>, <<"s","p","i","l","l","s">>,
      <<"s","p","i","l","l","i","n","g">>, <<"s","p","i","l","l","e","d">>,
      <<"s","p","l","a","s","h">>, <<"s","p","l","a","s","h","e","s">>,
      <<"s","p","l","a","s","h","i","n","g">>, <<"s","p","l","a","s","h","e","d">> }

VOCAB_something_falling_like_a_rock ==
    { <<"f","a","l","l">>, <<"f","a","l","l","s">>,
      <<"f","a","l","l","i","n","g">>, <<"f","e","l","l">>,
      <<"f","a","l","l","e","n">>, <<"d","r","o","p">>,
      <<"d","r","o","p","s">>, <<"d","r","o","p","p","i","n","g">>,
      <<"d","r","o","p","p","e","d">>, <<"p","l","u","m","m","e","t">>,
      <<"p","l","u","m","m","e","t","s">>, <<"p","l","u","m","m","e","t","i","n","g">>,
      <<"p","l","u","m","m","e","t","e","d">> }

VOCAB_throwing_something ==
    { <<"t","h","r","o","w">>, <<"t","h","r","o","w","s">>,
      <<"t","h","r","o","w","i","n","g">>, <<"t","h","r","e","w">>,
      <<"t","h","r","o","w","n">>, <<"t","o","s","s">>,
      <<"t","o","s","s","e","s">>, <<"t","o","s","s","i","n","g">>,
      <<"t","o","s","s","e","d">>, <<"f","l","i","n","g">>,
      <<"f","l","i","n","g","s">>, <<"f","l","i","n","g","i","n","g">>,
      <<"f","l","u","n","g">>, <<"h","u","r","l">>,
      <<"h","u","r","l","s">>, <<"h","u","r","l","i","n","g">>,
      <<"h","u","r","l","e","d">> }

VOCAB_uncovering_something ==
    { <<"u","n","c","o","v","e","r">>, <<"u","n","c","o","v","e","r","s">>,
      <<"u","n","c","o","v","e","r","i","n","g">>, <<"u","n","c","o","v","e","r","e","d">>,
      <<"r","e","v","e","a","l">>, <<"r","e","v","e","a","l","s">>,
      <<"r","e","v","e","a","l","i","n","g">>, <<"r","e","v","e","a","l","e","d">>,
      <<"r","e","m","o","v","e">>, <<"r","e","m","o","v","e","s">>,
      <<"r","e","m","o","v","i","n","g">>, <<"r","e","m","o","v","e","d">>,
      <<"l","i","f","t">>, <<"l","i","f","t","s">>,
      <<"l","i","f","t","i","n","g">>, <<"l","i","f","t","e","d">>,
      <<"o","p","e","n">>, <<"o","p","e","n","s">>,
      <<"o","p","e","n","i","n","g">>, <<"o","p","e","n","e","d">> }

KEY_default == <<"_","_","d","e","f","a","u","l","t","_","_">>

KEY_bending_something_so_that_it_deforms == <<"b","e","n","d","i","n","g"," ","s","o","m","e","t","h","i","n","g"," ","s","o"," ","t","h","a","t"," ","i","t"," ","d","e","f","o","r","m","s">>

KEY_closing_something == <<"c","l","o","s","i","n","g"," ","s","o","m","e","t","h","i","n","g">>

KEY_folding_something == <<"f","o","l","d","i","n","g"," ","s","o","m","e","t","h","i","n","g">>

KEY_pouring_something_into_something == <<"p","o","u","r","i","n","g"," ","s","o","m","e","t","h","i","n","g"," ","i","n","t","o"," ","s","o","m","e","t","h","i","n","g">>

KEY_pouring_something_into_something_until_it_overflows == <<"p","o","u","r","i","n","g"," ","s","o","m","e","t","h","i","n","g"," ","i","n","t","o"," ","s","o","m","e","t","h","i","n","g"," ","u","n","t","i","l"," ","i","t"," ","o","v","e","r","f","l","o","w","s">>

KEY_something_falling_like_a_rock == <<"s","o","m","e","t","h","i","n","g"," ","f","a","l","l","i","n","g"," ","l","i","k","e"," ","a"," ","r","o","c","k">>

KEY_throwing_something == <<"t","h","r","o","w","i","n","g"," ","s","o","m","e","t","h","i","n","g">>

KEY_uncovering_something == <<"u","n","c","o","v","e","r","i","n","g"," ","s","o","m","e","t","h","i","n","g">>

CLASS_ACTION_WORDS ==
    [ k \in {KEY_default,
                KEY_bending_something_so_that_it_deforms,
                KEY_closing_something,
                KEY_folding_something,
                KEY_pouring_something_into_something,
                KEY_pouring_something_into_something_until_it_overflows,
                KEY_something_falling_like_a_rock,
                KEY_throwing_something,
                KEY_uncovering_something} |->
        CASE k = KEY_default -> VOCAB_default
          [] k = KEY_bending_something_so_that_it_deforms -> VOCAB_bending_something_so_that_it_deforms
          [] k = KEY_closing_something -> VOCAB_closing_something
          [] k = KEY_folding_something -> VOCAB_folding_something
          [] k = KEY_pouring_something_into_something -> VOCAB_pouring_something_into_something
          [] k = KEY_pouring_something_into_something_until_it_overflows -> VOCAB_pouring_something_into_something_until_it_overflows
          [] k = KEY_something_falling_like_a_rock -> VOCAB_something_falling_like_a_rock
          [] k = KEY_throwing_something -> VOCAB_throwing_something
          [] k = KEY_uncovering_something -> VOCAB_uncovering_something ]

simple_tokenize(text) == split(Lower(text))

normalize_class_name(cls) ==
    IF cls = <<>> THEN KEY_default ELSE Lower(strip(cls))

\* CLASS_ACTION_WORDS.get(key, set())
class_vocab_get(key) ==
    IF key \in DOMAIN CLASS_ACTION_WORDS THEN CLASS_ACTION_WORDS[key] ELSE {}

\* the matches divided by the number of distinct tokens
information_density_class_aware_PerDistinct(text, cls) ==
    LET tokens == simple_tokenize(text)
        action_vocab == CLASS_ACTION_WORDS[KEY_default]
                            \cup class_vocab_get(normalize_class_name(cls))
        info_tokens == Cardinality({k \in 1..Len(tokens) : tokens[k] \in action_vocab})
    IN  IF tokens = <<>> THEN Zero
        ELSE Frac(info_tokens, Cardinality(SeqToSet(tokens)))

information_density_class_aware(text, cls) ==
    LET tokens == simple_tokenize(text)
        action_vocab == CLASS_ACTION_WORDS[KEY_default]
                            \cup class_vocab_get(normalize_class_name(cls))
        info_tokens == Cardinality({k \in 1..Len(tokens) : tokens[k] \in action_vocab})
    IN  IF tokens = <<>> THEN Zero ELSE Frac(info_tokens, Len(tokens))

average_information_density_class_aware(texts, cls) ==
    IF texts = <<>> THEN Zero
    ELSE FracDivInt(
             FracSum([k \in 1..Len(texts) |->
                         information_density_class_aware(texts[k], cls)]),
             Len(texts))

(* ------------------------------------------------------------------ *)
(* run_video_diff.py: inputs                                           *)
(* ------------------------------------------------------------------ *)
\* class directories: one that needs normalising to hit the vocabulary table,
\* one the table does not know
CLS_Folding ==
    <<"F","o","l","d","i","n","g"," ","s","o","m","e","t","h","i","n","g">>

CLS_Spin == <<"S","p","i","n">>

\* list_all_videos_from_frames: one meta per video directory
videos ==
    << [class |-> CLS_Folding, video_id |-> "v1",
        frame_dir |-> <<"frames", CLS_Folding, "v1">>],
       [class |-> CLS_Spin, video_id |-> "v2",
        frame_dir |-> <<"frames", CLS_Spin, "v2">>] >>

FrameDirs == {videos[k].frame_dir : k \in 1..Len(videos)}

\* os.path.join(RESULTS_ROOT, cls, f"{vid}.json")
out_path(meta) == <<"results", meta.class, meta.video_id>>

OutPaths == {out_path(videos[k]) : k \in 1..Len(videos)}

\* texts the model service may answer with
ModelTexts ==
    { <<"F","o","l","d","s"," ","i","t",".">>,
      <<"i","t"," ","o","p","e","n","s">> }

\* tokenizer.encode(text): byte-level BPE of an external vocabulary; the merges
\* are not modelled, every character counts as one token
count_tokens(text) == Len(text)

(* ------------------------------------------------------------------ *)
(* vlm_client.py: what one attempt of fn() can raise                   *)
(* ------------------------------------------------------------------ *)
\* openai.RateLimitError and openai.BadRequestError are APIStatusError, which
\* like APIConnectionError is an APIError; TypeError stands for an exception
\* outside that hierarchy
ErrorKinds == {"RateLimitError", "APIConnectionError", "BadRequestError", "TypeError"}

\* except RateLimitError
IsRateLimitError(e) == e = "RateLimitError"

\* except APIError
IsAPIError(e) == e \in {"RateLimitError", "APIConnectionError", "BadRequestError"}

\* errors that a repetition of the same request cannot cure
NonTransient == {"BadRequestError", "TypeError"}

\* the rate-limit clause sleeps the fixed time of the other clause
RateLimitWait_Fixed(attempt_i) == API_ERROR_WAIT

\* wait_time = 2 ** i
RateLimitWait(attempt_i) == 2 ^ attempt_i

\* time.sleep(5)
ApiErrorWait(attempt_i) == API_ERROR_WAIT

\* range(retries + 1): one iteration too many
InRange_OneMore(attempt_i) == attempt_i <= retries

\* for i in range(retries): is there an iteration i
InRange(attempt_i) == attempt_i < retries

(* ------------------------------------------------------------------ *)
(* Result files                                                        *)
(* ------------------------------------------------------------------ *)
\* a dict is the sequence of its (key, value) items in insertion order
DictKeys(d) == {d[n][1] : n \in 1..Len(d)}

\* d.get(key, default)
DictGet(d, key, default) ==
    IF key \in DictKeys(d)
    THEN d[CHOOSE n \in 1..Len(d) : d[n][1] = key][2]
    ELSE default

\* the result dict of process_one_video (lines 129-151)
BuildResult(meta, imgs, files, btexts, dtexts) ==
    LET red_base == compute_lexical_redundancy(btexts)
        red_diff == compute_lexical_redundancy(dtexts)
    IN  << <<"video_id", meta.video_id>>,
           <<"class", meta.class>>,
           <<"num_frames", Len(imgs)>>,
           <<"frame_dir", meta.frame_dir>>,
           <<"frame_files", files>>,
           <<"baseline_texts", btexts>>,
           <<"diff_texts", dtexts>>,
           <<"baseline_tokens", count_tokens(join(<<"\n">>, btexts))>>,
           <<"diff_tokens", count_tokens(join(<<"\n">>, dtexts))>>,
           <<"lexical_redundancy_baseline_avg", red_base[1]>>,
           <<"lexical_redundancy_diff_avg", red_diff[1]>>,
           <<"lexical_redundancy_baseline_all", red_base[2]>>,
           <<"lexical_redundancy_diff_all", red_diff[2]>> >>

\* no file at a path
NoFile == [exists |-> FALSE, items |-> <<>>, closed |-> FALSE]

\* open(out_path, "w"): the file exists and is empty
OpenedFile == [exists |-> TRUE, items |-> <<>>, closed |-> FALSE]

\* json.dump writes the dict in chunks; the document is whole once the last
\* chunk is in the file
DumpChunk(f, d) ==
    LET n == IF Len(f.items) + DumpItems < Len(d)
             THEN Len(f.items) + DumpItems ELSE Len(d)
    IN  [f EXCEPT !.items = SubSeq(d, 1, n), !.closed = (n = Len(d))]

\* the text of the file is one whole JSON document
FileComplete(f) == f.exists /\ f.closed

\* json.load: the dict of a whole document, a JSONDecodeError otherwise
JsonLoad(f) ==
    IF FileComplete(f) THEN [ok |-> TRUE, data |-> f.items]
    ELSE [ok |-> FALSE, data |-> <<>>]

\* the existence check never finds the file
ResultExists_Never(fs, path) == FALSE

\* os.path.exists(out_path)
ResultExists(fs, path) == fs[path].exists

\* analyze_results.collect_results: the rec built from one loaded dict
collect_rec(data) ==
    [ video_id |-> DictGet(data, "video_id", "None"),
      baseline_tokens |-> DictGet(data, "baseline_tokens", 0),
      diff_tokens |-> DictGet(data, "diff_tokens", 0),
      lex_red_base |-> DictGet(data, "lexical_redundancy_baseline_avg", Zero),
      lex_red_diff |-> DictGet(data, "lexical_redundancy_diff_avg", Zero),
      info_base |-> DictGet(data, "info_density_baseline", Zero),
      info_diff |-> DictGet(data, "info_density_diff", Zero) ]
\* the cut to max_frames is left out
TruncateFrames_None(loaded, cap) == loaded

\* if len(images) > max_frames: images = images[:max_frames]
TruncateFrames(loaded, cap) ==
    IF Len(loaded) > cap THEN Truncate(loaded, cap) ELSE loaded

\* img of enumerate(images) at index i (0-based)
SingleArgs(imgs, k) == <<imgs[k + 1]>>

\* the two frames of a pair in the wrong order
PairArgs_Swapped(imgs, k) == <<imgs[k + 1], imgs[k]>>

\* prev_img = images[i - 1]; curr_img = images[i] (0-based)
PairArgs(imgs, k) == <<imgs[k], imgs[k + 1]>>

\* which except clause of safe_openai_call takes an exception, in clause order
Handler(e) ==
    IF IsRateLimitError(e) THEN "rate_limit"
    ELSE IF IsAPIError(e) THEN "api_error"
    ELSE "propagate"

(* ------------------------------------------------------------------ *)
(* State                                                               *)
(* ------------------------------------------------------------------ *)
VARIABLES
    frames_fs,       \* frame directory -> set of file names in it
    results_fs,      \* result path -> file
    max_frames,      \* the max_frames argument main passes
    run,             \* how many times main() has been started
    pc,              \* where the running process is
    idx,             \* main's position in videos (1-based)
    images,          \* process_one_video: images (each named by its file)
    frame_files,     \* process_one_video: frame_files
    baseline_texts,  \* process_one_video: baseline_texts
    diff_texts,      \* process_one_video: diff_texts
    i,               \* process_one_video: loop index i (0-based, as in the code)
    fn,              \* the describe_* call in progress, or "none"
    attempt,         \* safe_openai_call: loop index i
    wait_time,       \* safe_openai_call: the argument of the time.sleep in progress
    error,           \* the exception last caught or raised, or "none"
    result,          \* process_one_video: the result dict
    fn_calls,        \* history: invocations of fn() by the describe_* call in progress
    slept,           \* history: seconds spent in time.sleep since fn() was last invoked
    calls,           \* history: describe_* calls of this process_one_video call
    entry,           \* history: the result file as process_one_video found it
    outcome          \* history: how each video of this run ended

\* the other programs of the repository, which run over the same results
\* directory when the orchestrator does not
VARIABLES
    m_texts,         \* metrics.py: the texts argument
    m_cls,           \* metrics.py: the cls argument
    m_out,           \* metrics.py: what each function returned for these arguments
    a_pc,            \* analyze_results: where main is
    a_todo,          \* analyze_results: the files os.walk has yet to yield
    by_class,        \* analyze_results: by_class, a dict of lists of rec
    rows,            \* analyze_results: rows
    csv,             \* analyze_results: the file at CSV_PATH
    u_pc,            \* update_metrics: where main is
    u_todo,          \* update_metrics: the files os.walk has yet to yield
    u_path,          \* update_metrics: update_one_json's path
    u_data,          \* update_metrics: update_one_json's data
    u_run,           \* history: how many times update_metrics.main has been started
    u_hist           \* history: each file before and after every update_one_json on it

orchestrator_vars ==
    << frames_fs, max_frames, run, pc, idx, images, frame_files,
       baseline_texts, diff_texts, i, fn, attempt, wait_time, error, result,
       fn_calls, slept, calls, entry, outcome >>

metrics_vars == << m_texts, m_cls, m_out >>

analyze_vars == << a_pc, a_todo, by_class, rows, csv >>

update_vars == << u_pc, u_todo, u_path, u_data, u_run, u_hist >>

vars == << results_fs, orchestrator_vars, metrics_vars, analyze_vars, update_vars >>

Terminal == {"done", "crashed", "killed"}

meta == videos[idx]

\* the frame stores explored: the directory listing of each video
FrameStores ==
    { [d \in FrameDirs |-> IF d = videos[1].frame_dir THEN s[1] ELSE s[2]] :
        s \in { <<Dir3, Dir1>>, <<Dir1, Dir3>>, <<Dir0, Dir1>> } }

NoOutcome == [k \in 1..Len(videos) |-> "none"]

NoEntry == [path |-> <<>>, file |-> NoFile]

\* nothing returned yet
NoOut == [jaccard |-> <<>>, redundancy |-> <<>>, density |-> <<>>, average |-> <<>>]

\* no call of metrics.py under way
MetricsIdle ==
    /\ m_texts = <<>>
    /\ m_cls = <<>>
    /\ m_out = NoOut

\* analyze_results is not running
AnalyzeIdle ==
    /\ a_pc = "idle"
    /\ a_todo = {}
    /\ by_class = <<>>
    /\ rows = <<>>
    /\ csv = NoFile

\* update_metrics is not running
UpdateIdle ==
    /\ u_pc = "idle"
    /\ u_todo = {}
    /\ u_path = <<>>
    /\ u_data = <<>>
    /\ u_run = 0
    /\ u_hist = [p \in OutPaths |-> <<>>]

\* run_video_diff is not running
OrchestratorIdle ==
    /\ frames_fs = [d \in FrameDirs |-> {}]
    /\ max_frames = 1
    /\ run = 0
    /\ pc = "idle"
    /\ idx = 1
    /\ images = <<>>
    /\ frame_files = <<>>
    /\ baseline_texts = <<>>
    /\ diff_texts = <<>>
    /\ i = 0
    /\ fn = "none"
    /\ attempt = 0
    /\ wait_time = 0
    /\ error = "none"
    /\ result = <<>>
    /\ fn_calls = 0
    /\ slept = 0
    /\ calls = <<>>
    /\ entry = NoEntry
    /\ outcome = NoOutcome

Init ==
    /\ frames_fs \in FrameStores
    /\ results_fs = [p \in OutPaths |-> NoFile]
    /\ max_frames \in 1..MaxCap
    /\ run = 1
    /\ pc = "main_loop"
    /\ idx = 1
    /\ images = <<>>
    /\ frame_files = <<>>
    /\ baseline_texts = <<>>
    /\ diff_texts = <<>>
    /\ i = 0
    /\ fn = "none"
    /\ attempt = 0
    /\ wait_time = 0
    /\ error = "none"
    /\ result = <<>>
    /\ fn_calls = 0
    /\ slept = 0
    /\ calls = <<>>
    /\ entry = NoEntry
    /\ outcome = NoOutcome
    /\ MetricsIdle
    /\ AnalyzeIdle
    /\ UpdateIdle

\* the locals of process_one_video and safe_openai_call go with their frames
DropLocals ==
    /\ images' = <<>>
    /\ frame_files' = <<>>
    /\ baseline_texts' = <<>>
    /\ diff_texts' = <<>>
    /\ i' = 0
    /\ fn' = "none"
    /\ attempt' = 0
    /\ wait_time' = 0
    /\ slept' = 0
    /\ result' = <<>>

\* what no step of process_one_video changes
Fixed ==
    /\ UNCHANGED <<frames_fs, max_frames, run>>
    /\ UNCHANGED <<metrics_vars, analyze_vars, update_vars>>

(* ------------------------------------------------------------------ *)
(* main                                                                *)
(* ------------------------------------------------------------------ *)
\* for meta in videos: process_one_video(meta, max_frames=8)
EnterVideo ==
    /\ pc = "main_loop"
    /\ idx <= Len(videos)
    /\ pc' = "check_exists"
    /\ calls' = <<>>
    /\ entry' = [path |-> out_path(meta), file |-> results_fs[out_path(meta)]]
    /\ error' = "none"
    /\ fn_calls' = 0
    /\ Fixed
    /\ UNCHANGED <<results_fs, idx, images, frame_files, baseline_texts, diff_texts,
                   i, fn, attempt, wait_time, slept, outcome, result>>

\* the loop of main is over: main returns
MainDone ==
    /\ pc = "main_loop"
    /\ idx > Len(videos)
    /\ pc' = "done"
    /\ Fixed
    /\ UNCHANGED <<results_fs, idx, images, frame_files, baseline_texts, diff_texts,
                   i, fn, attempt, wait_time, error, fn_calls, slept, calls, entry,
                   outcome, result>>

\* process_one_video returns to the loop of main
Return(how) ==
    /\ pc' = "main_loop"
    /\ idx' = idx + 1
    /\ outcome' = [outcome EXCEPT ![idx] = how]
    /\ DropLocals

\* an exception leaves process_one_video and main, which have no handler
Propagate(e) ==
    /\ pc' = "crashed"
    /\ error' = e
    /\ outcome' = [outcome EXCEPT ![idx] = "FAILED"]
    /\ DropLocals
    /\ UNCHANGED idx

(* ------------------------------------------------------------------ *)
(* process_one_video                                                   *)
(* ------------------------------------------------------------------ *)
\* if os.path.exists(out_path): return
SkipExisting ==
    /\ pc = "check_exists"
    /\ ResultExists(results_fs, out_path(meta))
    /\ Return("SKIPPED")
    /\ Fixed
    /\ UNCHANGED <<results_fs, error, fn_calls, calls, entry>>

NotExisting ==
    /\ pc = "check_exists"
    /\ ~ResultExists(results_fs, out_path(meta))
    /\ pc' = "load_frames"
    /\ Fixed
    /\ UNCHANGED <<results_fs, idx, images, frame_files, baseline_texts, diff_texts,
                   i, fn, attempt, wait_time, error, fn_calls, slept, calls, entry,
                   outcome, result>>

\* the early return of the empty case left out: the video goes on with no image
LoadNoFrames_FallsThrough ==
    /\ pc = "load_frames"
    /\ Len(load_images_in_order(frames_fs[meta.frame_dir])) = 0
    /\ images' = <<>>
    /\ frame_files' = <<>>
    /\ baseline_texts' = <<>>
    /\ i' = 0
    /\ pc' = "baseline"
    /\ Fixed
    /\ UNCHANGED <<results_fs, idx, diff_texts, fn, attempt, wait_time, error,
                   fn_calls, slept, calls, entry, outcome, result>>

\* load_images_in_order finds no image: return
LoadNoFrames ==
    /\ pc = "load_frames"
    /\ Len(load_images_in_order(frames_fs[meta.frame_dir])) = 0
    /\ Return("EMPTY")
    /\ Fixed
    /\ UNCHANGED <<results_fs, error, fn_calls, calls, entry>>

\* load the frames, cut them to max_frames, start the baseline loop
LoadFrames ==
    /\ pc = "load_frames"
    /\ LET loaded == load_images_in_order(frames_fs[meta.frame_dir])
       IN  /\ Len(loaded) # 0
           /\ images' = TruncateFrames(loaded, max_frames)
           /\ frame_files' = TruncateFrames(loaded, max_frames)
    /\ baseline_texts' = <<>>
    /\ i' = 0
    /\ pc' = "baseline"
    /\ Fixed
    /\ UNCHANGED <<results_fs, idx, diff_texts, fn, attempt, wait_time, error,
                   fn_calls, slept, calls, entry, outcome, result>>

\* a describe_* call enters safe_openai_call
StartCall(name, args) ==
    /\ fn' = name
    /\ calls' = Append(calls, <<name>> \o args)
    /\ attempt' = 0
    /\ fn_calls' = 0
    /\ wait_time' = 0
    /\ error' = "none"
    /\ pc' = "call_fn"
    /\ UNCHANGED slept

\* for i, img in enumerate(images): text = vlm.describe_single(img, ...)
BaselineNext ==
    /\ pc = "baseline"
    /\ i < Len(images)
    /\ StartCall("describe_single", SingleArgs(images, i))
    /\ Fixed
    /\ UNCHANGED <<results_fs, idx, images, frame_files, baseline_texts, diff_texts,
                   i, entry, outcome, result>>

\* the baseline loop is over: diff_texts = [sentinel], the diff loop starts at 1
BaselineEnd ==
    /\ pc = "baseline"
    /\ i >= Len(images)
    /\ diff_texts' = <<SENTINEL>>
    /\ i' = 1
    /\ pc' = "diff"
    /\ fn_calls' = 0
    /\ Fixed
    /\ UNCHANGED <<results_fs, idx, images, frame_files, baseline_texts, fn, attempt,
                   wait_time, error, slept, calls, entry, outcome, result>>

\* for i in range(1, len(images)): text = vlm.describe_pair(prev, curr, ...)
DiffNext ==
    /\ pc = "diff"
    /\ i < Len(images)
    /\ StartCall("describe_pair", PairArgs(images, i))
    /\ Fixed
    /\ UNCHANGED <<results_fs, idx, images, frame_files, baseline_texts, diff_texts,
                   i, entry, outcome, result>>

\* the diff loop is over: token statistics and lexical redundancy
DiffEnd ==
    /\ pc = "diff"
    /\ i >= Len(images)
    /\ pc' = "metrics"
    /\ fn_calls' = 0
    /\ Fixed
    /\ UNCHANGED <<results_fs, idx, images, frame_files, baseline_texts, diff_texts,
                   i, fn, attempt, wait_time, error, slept, calls, entry, outcome, result>>

\* the result dict is built (lines 122-151)
ComputeMetrics ==
    /\ pc = "metrics"
    /\ result' = BuildResult(meta, images, frame_files, baseline_texts, diff_texts)
    /\ pc' = "open"
    /\ Fixed
    /\ UNCHANGED <<results_fs, idx, images, frame_files, baseline_texts, diff_texts,
                   i, fn, attempt, wait_time, error, fn_calls, slept, calls, entry,
                   outcome>>

\* with open(out_path, "w") as f
OpenFile ==
    /\ pc = "open"
    /\ results_fs' = [results_fs EXCEPT ![out_path(meta)] = OpenedFile]
    /\ pc' = "dump"
    /\ Fixed
    /\ UNCHANGED <<idx, images, frame_files, baseline_texts, diff_texts,
                   i, fn, attempt, wait_time, error, fn_calls, slept, calls, entry,
                   outcome, result>>

\* json.dump(result, f): one more chunk reaches the file
DumpMore ==
    /\ pc = "dump"
    /\ LET f == DumpChunk(results_fs[out_path(meta)], result)
       IN  /\ ~f.closed
           /\ results_fs' = [results_fs EXCEPT ![out_path(meta)] = f]
    /\ Fixed
    /\ UNCHANGED <<pc, idx, images, frame_files, baseline_texts, diff_texts,
                   i, fn, attempt, wait_time, error, fn_calls, slept, calls, entry,
                   outcome, result>>

\* the last chunk reaches the file, the file is closed, process_one_video returns
DumpLast ==
    /\ pc = "dump"
    /\ LET f == DumpChunk(results_fs[out_path(meta)], result)
       IN  /\ f.closed
           /\ results_fs' = [results_fs EXCEPT ![out_path(meta)] = f]
    /\ Return("PERSISTED")
    /\ Fixed
    /\ UNCHANGED <<error, fn_calls, calls, entry>>

(* ------------------------------------------------------------------ *)
(* VLMClient.safe_openai_call                                          *)
(* ------------------------------------------------------------------ *)
\* return fn(): the attempt succeeds, describe_* returns the text to the loop
FnReturns ==
    /\ pc = "call_fn"
    /\ \E t \in ModelTexts :
          IF fn = "describe_single"
          THEN /\ baseline_texts' = Append(baseline_texts, t)
               /\ pc' = "baseline"
               /\ UNCHANGED diff_texts
          ELSE /\ diff_texts' = Append(diff_texts, t)
               /\ pc' = "diff"
               /\ UNCHANGED baseline_texts
    /\ i' = i + 1
    /\ fn_calls' = fn_calls + 1
    /\ fn' = "none"
    /\ attempt' = 0
    /\ wait_time' = 0
    /\ slept' = 0
    /\ error' = "none"
    /\ Fixed
    /\ UNCHANGED <<results_fs, idx, images, frame_files, calls, entry, outcome, result>>

\* fn() raises, an except clause catches it and calls time.sleep
Caught(e, seconds) ==
    /\ error' = e
    /\ wait_time' = seconds
    /\ slept' = 0
    /\ fn_calls' = fn_calls + 1
    /\ pc' = "sleeping"
    /\ Fixed
    /\ UNCHANGED <<results_fs, idx, images, frame_files, baseline_texts, diff_texts,
                   i, fn, attempt, calls, entry, outcome, result>>

\* except RateLimitError: time.sleep(2 ** i)
FnRateLimited ==
    /\ pc = "call_fn"
    /\ \E e \in ErrorKinds :
          /\ Handler(e) = "rate_limit"
          /\ Caught(e, RateLimitWait(attempt))

\* except APIError: time.sleep(5)
FnApiError ==
    /\ pc = "call_fn"
    /\ \E e \in ErrorKinds :
          /\ Handler(e) = "api_error"
          /\ Caught(e, ApiErrorWait(attempt))

\* fn() raises what no except clause names
FnOtherError ==
    /\ pc = "call_fn"
    /\ \E e \in ErrorKinds :
          /\ Handler(e) = "propagate"
          /\ Propagate(e)
    /\ fn_calls' = fn_calls + 1
    /\ Fixed
    /\ UNCHANGED <<results_fs, calls, entry>>

\* time.sleep returns and the for loop has another iteration
SleepRetry ==
    /\ pc = "sleeping"
    /\ InRange(attempt + 1)
    /\ attempt' = attempt + 1
    /\ slept' = wait_time
    /\ pc' = "call_fn"
    /\ Fixed
    /\ UNCHANGED <<results_fs, idx, images, frame_files, baseline_texts, diff_texts,
                   i, fn, wait_time, error, fn_calls, calls, entry, outcome, result>>

\* time.sleep returns and the for loop is over: raise RuntimeError
SleepExhausted ==
    /\ pc = "sleeping"
    /\ ~InRange(attempt + 1)
    /\ Propagate("RuntimeError")
    /\ Fixed
    /\ UNCHANGED <<results_fs, fn_calls, calls, entry>>

(* ------------------------------------------------------------------ *)
(* The environment                                                     *)
(* ------------------------------------------------------------------ *)
\* the process is interrupted (Ctrl-C, kill, power loss) wherever it is
Interrupt ==
    /\ pc \notin Terminal
    /\ pc' = "killed"
    /\ DropLocals
    /\ idx' = 1
    /\ error' = "none"
    /\ fn_calls' = 0
    /\ calls' = <<>>
    /\ entry' = NoEntry
    /\ outcome' = NoOutcome
    /\ Fixed
    /\ UNCHANGED results_fs

\* main() is started again; the frame store may have changed in between
Restart ==
    /\ pc \in Terminal
    /\ run < MaxRuns
    /\ run' = run + 1
    /\ frames_fs' \in FrameStores
    /\ pc' = "main_loop"
    /\ idx' = 1
    /\ DropLocals
    /\ error' = "none"
    /\ fn_calls' = 0
    /\ calls' = <<>>
    /\ entry' = NoEntry
    /\ outcome' = NoOutcome
    /\ UNCHANGED <<results_fs, max_frames>>
    /\ UNCHANGED <<metrics_vars, analyze_vars, update_vars>>

Next ==
    \/ EnterVideo \/ MainDone
    \/ SkipExisting \/ NotExisting \/ LoadNoFrames \/ LoadFrames
    \/ BaselineNext \/ BaselineEnd \/ DiffNext \/ DiffEnd
    \/ ComputeMetrics \/ OpenFile \/ DumpMore \/ DumpLast
    \/ FnReturns \/ FnRateLimited \/ FnApiError \/ FnOtherError
    \/ SleepRetry \/ SleepExhausted
    \/ Interrupt \/ Restart

Spec == Init /\ [][Next]_vars

(* ------------------------------------------------------------------ *)
(* metrics.py, called on its own                                       *)
(* ------------------------------------------------------------------ *)
\* the longest list of texts passed to metrics.py
MaxTexts == 3

\* texts passed to metrics.py: empty, white space only, punctuation only, mixed
\* case with punctuation, a repeated word
MetricTexts ==
    { <<>>,
      <<" ">>,
      <<"?","!">>,
      <<"F","o","l","d","s"," ","i","t",".">>,
      <<"i","t"," ","o","p","e","n","s">>,
      <<"f","o","l","d","s"," ","f","o","l","d","s">> }

\* class labels passed to metrics.py: a class of CLASS_ACTION_WORDS (not yet
\* normalised), a class it does not have, the empty label
MetricClasses == { CLS_Folding, CLS_Spin, <<>> }

TextLists == UNION { [1..n -> MetricTexts] : n \in 0..MaxTexts }

InitMetrics ==
    /\ m_texts \in TextLists
    /\ m_cls \in MetricClasses
    /\ m_out = NoOut
    /\ results_fs = [p \in OutPaths |-> NoFile]
    /\ OrchestratorIdle
    /\ AnalyzeIdle
    /\ UpdateIdle

\* what no call of metrics.py changes
MetricsFixed ==
    /\ UNCHANGED <<m_texts, m_cls>>
    /\ UNCHANGED <<results_fs, orchestrator_vars, analyze_vars, update_vars>>

\* jaccard_overlap(t1, t2) on the first two texts
CallJaccard ==
    /\ Len(m_texts) >= 2
    /\ m_out.jaccard = <<>>
    /\ m_out' = [m_out EXCEPT !.jaccard = <<jaccard_overlap(m_texts[1], m_texts[2])>>]
    /\ MetricsFixed

\* compute_lexical_redundancy(texts)
CallRedundancy ==
    /\ m_out.redundancy = <<>>
    /\ m_out' = [m_out EXCEPT !.redundancy = <<compute_lexical_redundancy(m_texts)>>]
    /\ MetricsFixed

\* information_density_class_aware(text, cls) on the first text
CallDensity ==
    /\ Len(m_texts) >= 1
    /\ m_out.density = <<>>
    /\ m_out' = [m_out EXCEPT !.density =
                    <<information_density_class_aware(m_texts[1], m_cls)>>]
    /\ MetricsFixed

\* average_information_density_class_aware(texts, cls)
CallAverage ==
    /\ m_out.average = <<>>
    /\ m_out' = [m_out EXCEPT !.average =
                    <<average_information_density_class_aware(m_texts, m_cls)>>]
    /\ MetricsFixed

NextMetrics == CallJaccard \/ CallRedundancy \/ CallDensity \/ CallAverage

SpecMetrics == InitMetrics /\ [][NextMetrics]_vars

(* ------------------------------------------------------------------ *)
(* analyze_results.py                                                  *)
(* ------------------------------------------------------------------ *)
\* d[key] = value: a new key goes last, an old one keeps its place
DictSet(d, key, value) ==
    IF key \in DictKeys(d)
    THEN [n \in 1..Len(d) |-> IF d[n][1] = key THEN <<key, value>> ELSE d[n]]
    ELSE Append(d, <<key, value>>)

\* the characters of the texts, in code point order
CODE_POINTS ==
    <<" ", "!", ".", "0", "1", "2", "3", "4", "5", "6", "7", "8", "9", "?">>
        \o UPPER \o <<"_">> \o LOWER

ord(c) == CHOOSE k \in 1..Len(CODE_POINTS) : CODE_POINTS[k] = c

\* a < b on str
RECURSIVE StrLess(_, _)
StrLess(a, b) ==
    IF b = <<>> THEN FALSE
    ELSE IF a = <<>> THEN TRUE
    ELSE IF Head(a) # Head(b) THEN ord(Head(a)) < ord(Head(b))
    ELSE StrLess(Tail(a), Tail(b))

\* sorted(by_class.items(), key=lambda x: x[0].lower()); sorted is stable
RECURSIVE InsertByLower(_, _)
InsertByLower(x, s) ==
    IF s = <<>> THEN <<x>>
    ELSE IF StrLess(Lower(Head(s)[1]), Lower(x[1]))
         THEN <<Head(s)>> \o InsertByLower(x, Tail(s))
         ELSE <<x>> \o s

RECURSIVE SortedByLower(_)
SortedByLower(items) ==
    IF items = <<>> THEN <<>>
    ELSE InsertByLower(Head(items), SortedByLower(Tail(items)))

\* the default of data.get("class", "UNKNOWN")
UNKNOWN == <<"U","N","K","N","O","W","N">>

\* by_class[cls].append(rec) on a defaultdict(list)
by_class_append(bc, cls, rec) == DictSet(bc, cls, Append(DictGet(bc, cls, <<>>), rec))

\* sum(list of ints)
RECURSIVE IntSum(_)
IntSum(s) == IF s = <<>> THEN 0 ELSE Head(s) + IntSum(Tail(s))

\* avg(lst) on ints
avg_int(lst) == IF lst = <<>> THEN Zero ELSE Frac(IntSum(lst), Len(lst))

\* avg(lst) on floats
avg(lst) == IF lst = <<>> THEN Zero ELSE FracDivInt(FracSum(lst), Len(lst))

\* x - y
FracSub(x, y) == Frac(x.num * y.den - y.num * x.den, x.den * y.den)

\* x / y
FracDiv(x, y) == Frac(x.num * y.den, x.den * y.num)

\* the ratio reported in place of the reduction
tok_reduction_Ratio(avg_tok_base, avg_tok_diff) ==
    IF avg_tok_base.num > 0
    THEN FracDiv(avg_tok_diff, avg_tok_base)
    ELSE Zero

\* analyze, lines 74-77
tok_reduction(avg_tok_base, avg_tok_diff) ==
    IF avg_tok_base.num > 0
    THEN FracSub([num |-> 1, den |-> 1], FracDiv(avg_tok_diff, avg_tok_base))
    ELSE Zero

\* analyze: the row of one class
class_row(cls, recs) ==
    LET field(name) == [k \in 1..Len(recs) |-> recs[k][name]]
        avg_tok_base == avg_int(field("baseline_tokens"))
        avg_tok_diff == avg_int(field("diff_tokens"))
    IN  [ class |-> cls,
          num_videos |-> Len(recs),
          avg_baseline_tokens |-> avg_tok_base,
          avg_diff_tokens |-> avg_tok_diff,
          avg_token_reduction |-> tok_reduction(avg_tok_base, avg_tok_diff),
          avg_lexical_redundancy_baseline |-> avg(field("lex_red_base")),
          avg_lexical_redundancy_diff |-> avg(field("lex_red_diff")),
          avg_info_density_baseline |-> avg(field("info_base")),
          avg_info_density_diff |-> avg(field("info_diff")) ]

\* analyze(by_class): one row per class, in the order of the lower-case labels
analyze(bc) ==
    LET items == SortedByLower(bc)
    IN  [k \in 1..Len(items) |-> class_row(items[k][1], items[k][2])]

\* a key a stored record may lack: <<>> for absent, <<v>> for value v
Field(key, opt) == IF opt = <<>> THEN <<>> ELSE << <<key, opt[1]>> >>

CLS_X == <<"X">>

CLS_x == <<"x">>

\* the records the results directory may hold when analyze_results starts:
\* with or without a class, token counts and averages
StoredRecords ==
    { << <<"video_id", "v">> >>
          \o Field("class", c)
          \o Field("baseline_tokens", b)
          \o Field("diff_tokens", t)
          \o Field("lexical_redundancy_baseline_avg", m)
          \o Field("lexical_redundancy_diff_avg", m)
          \o Field("info_density_baseline", m)
          \o Field("info_density_diff", m) :
        c \in { <<>>, <<CLS_X>>, <<CLS_x>> },
        b \in { <<>>, <<0>>, <<100>>, <<200>> },
        t \in { <<>>, <<40>>, <<60>> },
        m \in { <<>>, << [num |-> 1, den |-> 2] >> } }

\* a file of the results directory: absent, cut off by an interrupted writer, or
\* a whole record
StoredFiles ==
    { NoFile, OpenedFile }
        \cup { [exists |-> TRUE, items |-> d, closed |-> TRUE] : d \in StoredRecords }

\* os.walk(RESULTS_ROOT): the files that exist
walk(fs) == { p \in OutPaths : fs[p].exists }

InitAnalyze ==
    /\ results_fs \in [OutPaths -> StoredFiles]
    /\ a_pc = "collect"
    /\ a_todo = walk(results_fs)
    /\ by_class = <<>>
    /\ rows = <<>>
    /\ csv = NoFile
    /\ OrchestratorIdle
    /\ MetricsIdle
    /\ UpdateIdle

\* what analyze_results never changes
AnalyzeFixed == UNCHANGED <<results_fs, orchestrator_vars, metrics_vars, update_vars>>

\* collect_results: json.load returns, the rec joins the list of its class
CollectFile ==
    /\ a_pc = "collect"
    /\ \E p \in a_todo :
          LET loaded == JsonLoad(results_fs[p])
          IN  /\ loaded.ok
              /\ by_class' = by_class_append(by_class,
                                 DictGet(loaded.data, "class", UNKNOWN),
                                 collect_rec(loaded.data))
              /\ a_todo' = a_todo \ {p}
    /\ UNCHANGED <<a_pc, rows, csv>>
    /\ AnalyzeFixed

\* collect_results: json.load raises JSONDecodeError, which nothing catches
CollectRaises ==
    /\ a_pc = "collect"
    /\ \E p \in a_todo : ~JsonLoad(results_fs[p]).ok
    /\ a_pc' = "crashed"
    /\ UNCHANGED <<a_todo, by_class, rows, csv>>
    /\ AnalyzeFixed

\* collect_results returns by_class
CollectEnd ==
    /\ a_pc = "collect"
    /\ a_todo = {}
    /\ a_pc' = "analyze"
    /\ UNCHANGED <<a_todo, by_class, rows, csv>>
    /\ AnalyzeFixed

\* rows = analyze(by_class)
Analyze ==
    /\ a_pc = "analyze"
    /\ rows' = analyze(by_class)
    /\ a_pc' = "write_csv"
    /\ UNCHANGED <<a_todo, by_class, csv>>
    /\ AnalyzeFixed

\* write_csv(rows, CSV_PATH) with rows
WriteCsv ==
    /\ a_pc = "write_csv"
    /\ rows # <<>>
    /\ csv' = [exists |-> TRUE, items |-> rows, closed |-> TRUE]
    /\ a_pc' = "done"
    /\ UNCHANGED <<a_todo, by_class, rows>>
    /\ AnalyzeFixed

\* write_csv(rows, CSV_PATH) without rows: "No rows to write."
WriteNoRows ==
    /\ a_pc = "write_csv"
    /\ rows = <<>>
    /\ a_pc' = "done"
    /\ UNCHANGED <<a_todo, by_class, rows, csv>>
    /\ AnalyzeFixed

NextAnalyze ==
    \/ CollectFile \/ CollectRaises \/ CollectEnd
    \/ Analyze \/ WriteCsv \/ WriteNoRows

SpecAnalyze == InitAnalyze /\ [][NextAnalyze]_vars

(* ------------------------------------------------------------------ *)
(* update_metrics.py                                                   *)
(* ------------------------------------------------------------------ *)
\* the list without its last key
DROP_KEYS_Short ==
    << "visual_changes", "text_changes_baseline", "text_changes_diff",
       "motion_text_alignment_baseline" >>

DROP_KEYS ==
    << "visual_changes", "text_changes_baseline", "text_changes_diff",
       "motion_text_alignment_baseline", "motion_text_alignment_diff" >>

\* recompute_tokens(texts)
recompute_tokens(texts) == count_tokens(join(<<"\n">>, texts))

\* for key in DROP_KEYS: if key in data: data.pop(key)
RECURSIVE DictPopAll(_, _)
DictPopAll(d, keys) ==
    IF d = <<>> THEN <<>>
    ELSE IF Head(d)[1] \in keys THEN DictPopAll(Tail(d), keys)
    ELSE <<Head(d)>> \o DictPopAll(Tail(d), keys)

\* a list of (key, value) assigned to data in order
RECURSIVE DictSetAll(_, _)
DictSetAll(d, kvs) ==
    IF kvs = <<>> THEN d
    ELSE DictSetAll(DictSet(d, Head(kvs)[1], Head(kvs)[2]), Tail(kvs))

\* update_one_json, line 50: not baseline_texts or not diff_texts
has_no_texts(data) ==
    \/ DictGet(data, "baseline_texts", <<>>) = <<>>
    \/ DictGet(data, "diff_texts", <<>>) = <<>>

\* update_one_json, lines 46-84: data after the assignments and the pops
updated_data(data) ==
    LET baseline_texts0 == DictGet(data, "baseline_texts", <<>>)
        diff_texts0 == DictGet(data, "diff_texts", <<>>)
        cls == DictGet(data, "class", KEY_default)
        red_base == compute_lexical_redundancy(baseline_texts0)
        red_diff == compute_lexical_redundancy(diff_texts0)
        per_frame(texts) ==
            [k \in 1..Len(texts) |-> information_density_class_aware(texts[k], cls)]
    IN  DictPopAll(
            DictSetAll(data,
                << <<"baseline_tokens", recompute_tokens(baseline_texts0)>>,
                   <<"diff_tokens", recompute_tokens(diff_texts0)>>,
                   <<"lexical_redundancy_baseline_avg", red_base[1]>>,
                   <<"lexical_redundancy_diff_avg", red_diff[1]>>,
                   <<"lexical_redundancy_baseline_all", red_base[2]>>,
                   <<"lexical_redundancy_diff_all", red_diff[2]>>,
                   <<"info_density_baseline",
                     average_information_density_class_aware(baseline_texts0, cls)>>,
                   <<"info_density_diff",
                     average_information_density_class_aware(diff_texts0, cls)>>,
                   <<"info_density_baseline_per_frame", per_frame(baseline_texts0)>>,
                   <<"info_density_diff_per_frame", per_frame(diff_texts0)>> >>),
            SeqToSet(DROP_KEYS))

\* two texts of the model service, one per frame, and their diff texts
TwoBaselineTexts ==
    << <<"F","o","l","d","s"," ","i","t",".">>, <<"i","t"," ","o","p","e","n","s">> >>

TwoDiffTexts == << SENTINEL, <<"i","t"," ","o","p","e","n","s">> >>

TwoFrames == Truncate(load_images_in_order(Dir3), 2)

\* a record as process_one_video leaves it
RecordAsWritten ==
    BuildResult(videos[1], TwoFrames, TwoFrames, TwoBaselineTexts, TwoDiffTexts)

\* a record of an older version: stale token counts, no averages, the five
\* alignment fields
RecordOld ==
    << <<"video_id", "v2">>,
       <<"class", CLS_Spin>>,
       <<"num_frames", 2>>,
       <<"visual_changes", <<1, 2>> >>,
       <<"frame_files", TwoFrames>>,
       <<"baseline_texts", TwoBaselineTexts>>,
       <<"text_changes_baseline", <<1>> >>,
       <<"text_changes_diff", <<2>> >>,
       <<"diff_texts", TwoDiffTexts>>,
       <<"baseline_tokens", 1>>,
       <<"diff_tokens", 1>>,
       <<"motion_text_alignment_baseline", 3>>,
       <<"motion_text_alignment_diff", 4>> >>

\* a record without the class key
RecordNoClass ==
    << <<"video_id", "v1">>,
       <<"baseline_texts", TwoBaselineTexts>>,
       <<"diff_texts", TwoDiffTexts>> >>

\* a record without the baseline_texts key
RecordNoBaseline ==
    << <<"video_id", "v1">>,
       <<"class", CLS_Folding>>,
       <<"diff_texts", TwoDiffTexts>>,
       <<"baseline_tokens", 1>>,
       <<"visual_changes", <<1, 2>> >> >>

\* a record with an empty diff_texts list
RecordEmptyDiff ==
    << <<"video_id", "v2">>,
       <<"class", CLS_Spin>>,
       <<"baseline_texts", TwoBaselineTexts>>,
       <<"diff_texts", <<>> >>,
       <<"diff_tokens", 1>> >>

\* the files the results directory may hold when update_metrics starts
UpdateFiles ==
    { NoFile, OpenedFile }
        \cup { [exists |-> TRUE, items |-> d, closed |-> TRUE] :
                 d \in { RecordAsWritten, RecordOld, RecordNoClass,
                         RecordNoBaseline, RecordEmptyDiff } }

InitUpdate ==
    /\ results_fs \in [OutPaths -> UpdateFiles]
    /\ u_pc = "walk"
    /\ u_todo = walk(results_fs)
    /\ u_path = <<>>
    /\ u_data = <<>>
    /\ u_run = 1
    /\ u_hist = [p \in OutPaths |-> <<>>]
    /\ OrchestratorIdle
    /\ MetricsIdle
    /\ AnalyzeIdle

\* what update_metrics never changes
UpdateFixed == UNCHANGED <<orchestrator_vars, metrics_vars, analyze_vars>>

\* main: update_one_json(json_path); data = json.load(f)
UpdateLoad ==
    /\ u_pc = "walk"
    /\ \E p \in u_todo :
          LET loaded == JsonLoad(results_fs[p])
          IN  /\ loaded.ok
              /\ u_path' = p
              /\ u_data' = loaded.data
              /\ u_todo' = u_todo \ {p}
              /\ u_hist' = [u_hist EXCEPT ![p] =
                               IF @ = <<>> THEN <<results_fs[p]>> ELSE @]
    /\ u_pc' = "loaded"
    /\ UNCHANGED <<results_fs, u_run>>
    /\ UpdateFixed

\* json.load raises JSONDecodeError, which nothing catches
UpdateLoadRaises ==
    /\ u_pc = "walk"
    /\ \E p \in u_todo : ~JsonLoad(results_fs[p]).ok
    /\ u_pc' = "crashed"
    /\ UNCHANGED <<results_fs, u_todo, u_path, u_data, u_run, u_hist>>
    /\ UpdateFixed

\* "[WARN] ... has no texts, skip."
UpdateSkip ==
    /\ u_pc = "loaded"
    /\ has_no_texts(u_data)
    /\ u_hist' = [u_hist EXCEPT ![u_path] = Append(@, results_fs[u_path])]
    /\ u_path' = <<>>
    /\ u_data' = <<>>
    /\ u_pc' = "walk"
    /\ UNCHANGED <<results_fs, u_todo, u_run>>
    /\ UpdateFixed

\* the metrics are recomputed and assigned, the obsolete keys popped
UpdateCompute ==
    /\ u_pc = "loaded"
    /\ ~has_no_texts(u_data)
    /\ u_data' = updated_data(u_data)
    /\ u_pc' = "write"
    /\ UNCHANGED <<results_fs, u_todo, u_path, u_run, u_hist>>
    /\ UpdateFixed

\* with open(path, "w") as f: json.dump(data, f); update_one_json returns
UpdateWrite ==
    /\ u_pc = "write"
    /\ LET f == [exists |-> TRUE, items |-> u_data, closed |-> TRUE]
       IN  /\ results_fs' = [results_fs EXCEPT ![u_path] = f]
           /\ u_hist' = [u_hist EXCEPT ![u_path] = Append(@, f)]
    /\ u_path' = <<>>
    /\ u_data' = <<>>
    /\ u_pc' = "walk"
    /\ UNCHANGED <<u_todo, u_run>>
    /\ UpdateFixed

\* os.walk is over: "[DONE] processed ... json files."
UpdateEnd ==
    /\ u_pc = "walk"
    /\ u_todo = {}
    /\ u_pc' = "done"
    /\ UNCHANGED <<results_fs, u_todo, u_path, u_data, u_run, u_hist>>
    /\ UpdateFixed

\* update_metrics is run again over the same directory
UpdateAgain ==
    /\ u_pc = "done"
    /\ u_run < MaxRuns
    /\ u_run' = u_run + 1
    /\ u_todo' = walk(results_fs)
    /\ u_pc' = "walk"
    /\ UNCHANGED <<results_fs, u_path, u_data, u_hist>>
    /\ UpdateFixed

NextUpdate ==
    \/ UpdateLoad \/ UpdateLoadRaises \/ UpdateSkip \/ UpdateCompute
    \/ UpdateWrite \/ UpdateEnd \/ UpdateAgain

SpecUpdate == InitUpdate /\ [][NextUpdate]_vars

(* ------------------------------------------------------------------ *)
(* Properties                                                          *)
(* ------------------------------------------------------------------ *)
\* time.sleep(3) after each call in run_baseline and run_diff
INTER_CALL_DELAY == 3

VideoIdx == 1..Len(videos)

ResultFile(k) == results_fs[out_path(videos[k])]

\* C1: a call of process_one_video that found the result file of its video
\* makes no describe_single and no describe_pair call, invokes the network call
\* not once, and leaves the file as it found it.
C1_SkipExisting ==
    entry.file.exists =>
        /\ calls = <<>>
        /\ fn_calls = 0
        /\ results_fs[entry.path] = entry.file

\* a video with frames and a whole record is met again and skipped
C1_Witness ==
    /\ run = 2
    /\ outcome[1] = "SKIPPED"
    /\ entry.path = out_path(videos[1])
    /\ FileComplete(entry.file)
    /\ DictGet(entry.file.items, "num_frames", 0) = 3

\* C2: the existence check skips a video only if the file at its result path
\* holds the whole record, whatever happened to earlier runs.
C2_AllOrNothing ==
    \A k \in VideoIdx : outcome[k] = "SKIPPED" => FileComplete(ResultFile(k))

\* C3: once a model call of a video has used up its retries, main still visits
\* every video of the list before it ends.
C3_BatchContinues ==
    (pc \in {"done", "crashed"} /\ error = "RuntimeError")
        => \A k \in VideoIdx : outcome[k] # "none"

\* C4: one describe_* call invokes the network call at most 5 times, once per
\* iteration, whatever the kinds of the failures; it returns at the first
\* success, and raises RuntimeError only after 5 failed invocations.
C4_RetryBudget ==
    /\ fn_calls <= 5
    /\ (pc = "call_fn" => fn_calls = attempt)
    /\ (pc = "sleeping" => fn_calls = attempt + 1)
    /\ (pc \in {"baseline", "diff"} /\ fn_calls > 0 =>
           /\ Len(baseline_texts) + Len(diff_texts) = Len(calls) + (IF pc = "diff" THEN 1 ELSE 0)
           /\ error = "none")
    /\ (error = "RuntimeError" =>
           /\ pc = "crashed"
           /\ fn_calls = 5
           /\ outcome[idx] = "FAILED")

\* five failed attempts of mixed kinds end in the RuntimeError
C4_Witness ==
    /\ pc = "crashed"
    /\ error = "RuntimeError"
    /\ fn_calls = 5
    /\ calls # <<>>

\* C5: the sleep after a failed attempt a (counted from 0 over all attempts of
\* the call) lasts 2^a seconds after a rate-limit failure and 5 seconds after
\* another API error, and the next attempt starts only when it is over.
C5_Backoff ==
    /\ (pc = "sleeping" =>
           wait_time = (IF error = "RateLimitError" THEN 2 ^ attempt ELSE 5))
    /\ (pc = "call_fn" /\ attempt > 0 =>
           slept = (IF error = "RateLimitError" THEN 2 ^ (attempt - 1) ELSE 5))

\* a rate-limit failure on the fourth attempt, slept off, the fifth attempt due
C5_Witness ==
    /\ pc = "call_fn"
    /\ attempt = 4
    /\ error = "RateLimitError"
    /\ slept = 8

\* C6: an error that a repetition cannot cure is not retried: one invocation,
\* no sleep, and the error itself reaches the caller.
C6_NonTransientNotRetried ==
    error \in NonTransient =>
        /\ pc = "crashed"
        /\ fn_calls = 1
        /\ wait_time = 0

\* the frames a record must name: the first n image files of the directory in
\* name order
IsFirstFrames(files, dir, n) ==
    /\ Len(files) = n
    /\ \A k \in 1..n : files[k] \in dir /\ IsImageFile(files[k])
    /\ \A j, k \in 1..n : j < k => FileLess(files[j], files[k])
    /\ \A g \in dir :
          (IsImageFile(g) /\ g \notin SeqToSet(files))
              => \A k \in 1..n : FileLess(files[k], g)

MinOf(a, b) == IF a < b THEN a ELSE b

\* C7: every record a run has persisted has num_frames = min(F, max_frames) = the lengths of
\* baseline_texts, diff_texts and frame_files, and frame_files are the first
\* min(F, max_frames) image files in name order (F > 0 image files, max_frames >= 1).
C7_FrameCount ==
    \A k \in VideoIdx :
        outcome[k] = "PERSISTED" =>
            LET d == JsonLoad(ResultFile(k)).data
                dir == frames_fs[videos[k].frame_dir]
                F == Cardinality({f \in dir : IsImageFile(f)})
                n == MinOf(F, max_frames)
            IN  /\ FileComplete(ResultFile(k))
                /\ F > 0
                /\ DictGet(d, "num_frames", -1) = n
                /\ Len(DictGet(d, "baseline_texts", <<>>)) = n
                /\ Len(DictGet(d, "diff_texts", <<>>)) = n
                /\ IsFirstFrames(DictGet(d, "frame_files", <<>>), dir, n)

\* a directory of three images, cut to two, has its record on disk
C7_Witness ==
    /\ max_frames = 2
    /\ frames_fs[videos[1].frame_dir] = Dir3
    /\ outcome[1] = "PERSISTED"
    /\ DictGet(ResultFile(1).items, "num_frames", 0) = 2

\* the describe_* calls of one video, in the order the claim gives them
ExpectedCalls(imgs) ==
    LET n == Len(imgs)
    IN  [k \in 1..(2 * n - 1) |->
            IF k <= n THEN <<"describe_single", imgs[k]>>
            ELSE <<"describe_pair", imgs[k - n], imgs[k - n + 1]>>]

\* C8: diff_texts starts with the sentinel, which costs no model call; the calls
\* of a video are describe_single on frames 0..N-1 in order, then describe_pair
\* on (frame i-1, frame i) for i = 1..N-1 in order.
C8_CallOrder ==
    /\ (diff_texts # <<>> => diff_texts[1] = SENTINEL)
    /\ (images # <<>> =>
           /\ Len(calls) <= 2 * Len(images) - 1
           /\ calls = SubSeq(ExpectedCalls(images), 1, Len(calls))
           /\ (pc = "diff" => Len(calls) = Len(images) + Len(diff_texts) - 1)
           /\ (pc \in {"metrics", "open", "dump"} => calls = ExpectedCalls(images)))
    /\ \A k \in VideoIdx :
          FileComplete(ResultFile(k)) =>
              DictGet(ResultFile(k).items, "diff_texts", <<>>)[1] = SENTINEL

\* three frames: all five calls are made, the metrics are due
C8_Witness ==
    /\ pc = "metrics"
    /\ Len(images) = 3
    /\ Len(calls) = 5
    /\ Len(diff_texts) = 3

\* C9: between the return of one describe_* call and the start of the next, the
\* orchestrator has slept for the inter-call delay.
C9_InterCallDelay ==
    (pc = "call_fn" /\ attempt = 0 /\ Len(calls) > 1)
        => slept >= INTER_CALL_DELAY

InfoKeys ==
    { "info_density_baseline", "info_density_diff",
      "info_density_baseline_per_frame", "info_density_diff_per_frame" }

\* C10: every whole record the orchestrator leaves carries the four
\* information-density fields, so that collect_results reads the densities of
\* the record's texts under its class.
C10_DensityPersisted ==
    \A k \in VideoIdx :
        FileComplete(ResultFile(k)) =>
            LET d == JsonLoad(ResultFile(k)).data
                cls == DictGet(d, "class", <<>>)
            IN  /\ InfoKeys \subseteq DictKeys(d)
                /\ collect_rec(d).info_base =
                       average_information_density_class_aware(
                           DictGet(d, "baseline_texts", <<>>), cls)
                /\ collect_rec(d).info_diff =
                       average_information_density_class_aware(
                           DictGet(d, "diff_texts", <<>>), cls)

\* the image files of video k in the frame store of this run
FrameCount(k) ==
    Cardinality({f \in frames_fs[videos[k].frame_dir] : IsImageFile(f)})

\* C11: a video that has no frame, or whose processing raised, ends with no file
\* at its result path; a file that process_one_video has created holds nothing
\* but items of the record built from the texts of all the calls of the video,
\* each text sequence whole.
C11_RecordAfterAllCalls ==
    /\ \A k \in VideoIdx :
          (outcome[k] \notin {"none", "SKIPPED"} /\ FrameCount(k) = 0)
              => (outcome[k] = "EMPTY" /\ ~ResultFile(k).exists)
    /\ \A k \in VideoIdx : outcome[k] = "FAILED" => ~ResultFile(k).exists
    /\ ((pc \in {"load_frames", "baseline", "diff", "call_fn", "sleeping",
                 "metrics", "open"})
           => ~results_fs[entry.path].exists)
    /\ (pc = "dump" =>
           LET f == results_fs[entry.path]
           IN  /\ calls = ExpectedCalls(images)
               /\ Len(baseline_texts) = Len(images)
               /\ Len(diff_texts) = Len(images)
               /\ Len(f.items) <= Len(result)
               /\ f.items = SubSeq(result, 1, Len(f.items))
               /\ DictGet(result, "baseline_texts", <<>>) = baseline_texts
               /\ DictGet(result, "diff_texts", <<>>) = diff_texts)

\* the first video has no frame, the second raised from a describe_* call: no
\* file at either path
C11_Witness ==
    /\ pc = "crashed"
    /\ outcome = <<"EMPTY", "FAILED">>
    /\ calls # <<>>
    /\ ~ResultFile(1).exists
    /\ ~ResultFile(2).exists

\* 1.0
One == [num |-> 1, den |-> 1]

\* the words of a text: the maximal runs of letters and digits of the text in
\* lower case
WordSet(text) ==
    LET s == Lower(text)
        n == Len(s)
        runs == { r \in (1..n) \X (1..n) :
                    /\ r[1] <= r[2]
                    /\ \A k \in r[1]..r[2] : IsAlnum(s[k])
                    /\ (r[1] = 1 \/ ~IsAlnum(s[r[1] - 1]))
                    /\ (r[2] = n \/ ~IsAlnum(s[r[2] + 1])) }
    IN  { SubSeq(s, r[1], r[2]) : r \in runs }

\* C12 as stated: jaccard_overlap is 1.0 for two identical non-empty texts and
\* 0.0 for two texts whose word sets are disjoint.
C12_JaccardIdenticalDisjoint ==
    m_out.jaccard # <<>> =>
        LET t1 == m_texts[1]
            t2 == m_texts[2]
            o == m_out.jaccard[1]
        IN  /\ (t1 = t2 /\ t1 # <<>>) => o = One
            /\ (WordSet(t1) \cap WordSet(t2) = {}) => o = Zero

\* C12, amended: jaccard_overlap is 1.0 for two identical texts that hold at
\* least one word, and 0.0 for two texts whose word sets are disjoint (two
\* texts without a word among them).
C12_JaccardIdenticalWithWords ==
    m_out.jaccard # <<>> =>
        LET t1 == m_texts[1]
            t2 == m_texts[2]
            o == m_out.jaccard[1]
        IN  /\ (t1 = t2 /\ WordSet(t1) # {}) => o = One
            /\ (WordSet(t1) \cap WordSet(t2) = {}) => o = Zero

\* the same text twice, with a capital and punctuation in it, scored 1.0
C12_Witness ==
    /\ Len(m_texts) >= 2
    /\ m_texts[1] = <<"F","o","l","d","s"," ","i","t",".">>
    /\ m_texts[2] = m_texts[1]
    /\ m_out.jaccard = <<One>>

\* o is |W1 & W2| / |W1 | W2| for the word sets of t1 and t2, and 0.0 if
\* neither text has a word
IsJaccardOf(o, t1, t2) ==
    LET inter == WordSet(t1) \cap WordSet(t2)
        union == WordSet(t1) \cup WordSet(t2)
    IN  IF union = {} THEN o = Zero
        ELSE /\ o.den > 0
             /\ o.num * Cardinality(union) = o.den * Cardinality(inter)

\* the product of the denominators of a list of fractions
RECURSIVE DenProduct(_)
DenProduct(s) == IF s = <<>> THEN 1 ELSE Head(s).den * DenProduct(Tail(s))

\* the sum of a list of fractions, as a numerator over common denominator d
RECURSIVE NumSumOver(_, _)
NumSumOver(s, d) ==
    IF s = <<>> THEN 0
    ELSE Head(s).num * (d \div Head(s).den) + NumSumOver(Tail(s), d)

\* a is the arithmetic mean of the non-empty list s
IsMeanOf(a, s) ==
    LET d == DenProduct(s)
    IN  /\ a.den > 0
        /\ a.num * d * Len(s) = a.den * NumSumOver(s, d)

\* C13: compute_lexical_redundancy(texts) returns max(n-1, 0) scores, the k-th
\* the Jaccard overlap of texts k and k+1, and their arithmetic mean; for
\* n <= 1 it returns 0.0 and the empty list.
C13_RedundancyList ==
    m_out.redundancy # <<>> =>
        LET avg_overlap == m_out.redundancy[1][1]
            overlaps == m_out.redundancy[1][2]
            n == Len(m_texts)
        IN  /\ Len(overlaps) = (IF n >= 1 THEN n - 1 ELSE 0)
            /\ \A k \in 1..Len(overlaps) :
                  IsJaccardOf(overlaps[k], m_texts[k], m_texts[k + 1])
            /\ IF n <= 1
               THEN avg_overlap = Zero /\ overlaps = <<>>
               ELSE IsMeanOf(avg_overlap, overlaps)

\* three texts whose two adjacent pairs score 1/3 and 0
C13_Witness ==
    /\ m_texts = << <<"F","o","l","d","s"," ","i","t",".">>,
                    <<"i","t"," ","o","p","e","n","s">>,
                    <<"f","o","l","d","s"," ","f","o","l","d","s">> >>
    /\ m_out.redundancy # <<>>
    /\ m_out.redundancy[1][2] = << [num |-> 1, den |-> 3], Zero >>
    /\ m_out.redundancy[1][1] = [num |-> 1, den |-> 6]

\* x <= y
FracLeq(x, y) == x.num * y.den <= y.num * x.den

\* 0.0 <= x <= 1.0
InUnit(x) == x.den > 0 /\ FracLeq(Zero, x) /\ FracLeq(x, One)

\* C14: every overlap, redundancy average, information density and density
\* average that metrics.py returns lies in [0.0, 1.0], for every list of texts
\* and every class label; the density of an empty text is 0.0.
C14_UnitInterval ==
    /\ m_out.jaccard # <<>> => InUnit(m_out.jaccard[1])
    /\ m_out.redundancy # <<>> =>
          /\ InUnit(m_out.redundancy[1][1])
          /\ \A k \in 1..Len(m_out.redundancy[1][2]) :
                InUnit(m_out.redundancy[1][2][k])
    /\ m_out.density # <<>> =>
          /\ InUnit(m_out.density[1])
          /\ (m_texts[1] = <<>> => m_out.density[1] = Zero)
    /\ m_out.average # <<>> => InUnit(m_out.average[1])

\* under the folding class a text of a repeated action word has density 1.0, and
\* the average over it, a text with no action word and an empty text is 1/3
C14_Witness ==
    /\ m_cls = CLS_Folding
    /\ m_texts = << <<"f","o","l","d","s"," ","f","o","l","d","s">>,
                    <<"?","!">>,
                    <<>> >>
    /\ m_out.density = <<One>>
    /\ m_out.average = << [num |-> 1, den |-> 3] >>
    /\ m_out.redundancy # <<>>

\* the class analyze_results files a stored record under
StoredClass(p) == DictGet(results_fs[p].items, "class", UNKNOWN)

\* the whole records of the results directory that belong to class cls
ClassGroup(cls) ==
    { p \in OutPaths : FileComplete(results_fs[p]) /\ StoredClass(p) = cls }

\* the sum over the files of S of the token count stored under key, 0 if absent
RECURSIVE StoredSum(_, _)
StoredSum(S, key) ==
    IF S = {} THEN 0
    ELSE LET p == CHOOSE q \in S : TRUE
         IN  DictGet(results_fs[p].items, key, 0) + StoredSum(S \ {p}, key)

\* C15: the row of each class reports avg_token_reduction =
\* 1 - avg_diff_tokens / avg_baseline_tokens over the means of the records of
\* the class, and exactly 0.0 when the mean of the baseline tokens is 0.
C15_TokenReduction ==
    a_pc \in {"write_csv", "done"} =>
        /\ { rows[k].class : k \in 1..Len(rows) }
               = { StoredClass(p) : p \in walk(results_fs) }
        /\ \A k \in 1..Len(rows) :
              LET g == ClassGroup(rows[k].class)
                  n == Cardinality(g)
                  base == StoredSum(g, "baseline_tokens")
                  diff == StoredSum(g, "diff_tokens")
                  r == rows[k].avg_token_reduction
              IN  /\ n > 0
                  /\ rows[k].num_videos = n
                  /\ rows[k].avg_baseline_tokens.num * n
                         = rows[k].avg_baseline_tokens.den * base
                  /\ rows[k].avg_diff_tokens.num * n
                         = rows[k].avg_diff_tokens.den * diff
                  /\ IF base = 0 THEN r = Zero
                     ELSE r.den > 0 /\ r.num * base = r.den * (base - diff)

\* two videos of class X with baseline tokens 100 and 200 and diff tokens 40 and
\* 60: the means are 150 and 50, the reduction 2/3
C15_Witness ==
    /\ a_pc = "done"
    /\ csv.exists
    /\ Len(rows) = 1
    /\ rows[1].class = CLS_X
    /\ rows[1].num_videos = 2
    /\ rows[1].avg_baseline_tokens = [num |-> 150, den |-> 1]
    /\ rows[1].avg_diff_tokens = [num |-> 50, den |-> 1]
    /\ rows[1].avg_token_reduction = [num |-> 2, den |-> 3]

\* C16: analyze_results never ends in an exception because of a file of the
\* results directory that is not a whole record; it reaches write_csv with a
\* row for the class of every whole record.
C16_CorruptRecordTolerated ==
    /\ a_pc # "crashed"
    /\ a_pc = "done" =>
          \A p \in OutPaths :
              FileComplete(results_fs[p]) =>
                  \E k \in 1..Len(rows) : rows[k].class = StoredClass(p)

\* the fields update_one_json derives from the stored texts
DerivedKeys ==
    { "baseline_tokens", "diff_tokens",
      "lexical_redundancy_baseline_avg", "lexical_redundancy_diff_avg",
      "lexical_redundancy_baseline_all", "lexical_redundancy_diff_all",
      "info_density_baseline", "info_density_diff",
      "info_density_baseline_per_frame", "info_density_diff_per_frame" }

ObsoleteKeys ==
    { "visual_changes", "text_changes_baseline", "text_changes_diff",
      "motion_text_alignment_baseline", "motion_text_alignment_diff" }

\* what one update_one_json call may do to a file, from before to after
UpdatedOnlyDerived(before, after) ==
    LET d0 == before.items
        d1 == after.items
        btexts == DictGet(d0, "baseline_texts", <<>>)
        dtexts == DictGet(d0, "diff_texts", <<>>)
        cls == DictGet(d0, "class", KEY_default)
        value(d, key) == d[CHOOSE n \in 1..Len(d) : d[n][1] = key][2]
    IN  IF btexts = <<>> \/ dtexts = <<>>
        THEN after = before
        ELSE /\ FileComplete(after)
             /\ DictKeys(d1) = (DictKeys(d0) \ ObsoleteKeys) \cup DerivedKeys
             /\ \A key \in DictKeys(d0) \ (ObsoleteKeys \cup DerivedKeys) :
                   value(d1, key) = value(d0, key)
             /\ value(d1, "baseline_tokens") = count_tokens(join(<<"\n">>, btexts))
             /\ value(d1, "diff_tokens") = count_tokens(join(<<"\n">>, dtexts))
             /\ <<value(d1, "lexical_redundancy_baseline_avg"),
                  value(d1, "lexical_redundancy_baseline_all")>>
                    = compute_lexical_redundancy(btexts)
             /\ <<value(d1, "lexical_redundancy_diff_avg"),
                  value(d1, "lexical_redundancy_diff_all")>>
                    = compute_lexical_redundancy(dtexts)
             /\ value(d1, "info_density_baseline")
                    = average_information_density_class_aware(btexts, cls)
             /\ value(d1, "info_density_diff")
                    = average_information_density_class_aware(dtexts, cls)
             /\ value(d1, "info_density_baseline_per_frame")
                    = [k \in 1..Len(btexts) |->
                          information_density_class_aware(btexts[k], cls)]
             /\ value(d1, "info_density_diff_per_frame")
                    = [k \in 1..Len(dtexts) |->
                          information_density_class_aware(dtexts[k], cls)]

\* C17: update_one_json makes no model call; on a record with both text lists
\* non-empty it leaves every field other than the derived and the obsolete ones
\* as it was, sets the derived ones to what metrics.py and the tokenizer give
\* for the stored texts and class, and leaves no obsolete key; on a record with
\* a text list missing or empty it leaves the file as it was; a second call on
\* the same file changes nothing.
C17_UpdateDerivedOnly ==
    /\ calls = <<>> /\ fn_calls = 0
    /\ \A p \in OutPaths :
          LET h == u_hist[p]
          IN  /\ \A n \in 1..(Len(h) - 1) : UpdatedOnlyDerived(h[n], h[n + 1])
              /\ \A n \in 2..(Len(h) - 1) : h[n + 1] = h[n]
              /\ (h # <<>> /\ u_pc # "write") => results_fs[p] = h[Len(h)]

\* the record of an older version has been updated twice, a record without
\* baseline texts skipped twice
C17_Witness ==
    /\ u_pc = "done"
    /\ u_run = 2
    /\ Len(u_hist[out_path(videos[1])]) = 3
    /\ Len(u_hist[out_path(videos[2])]) = 3
    /\ u_hist[out_path(videos[1])][1].items = RecordOld
    /\ u_hist[out_path(videos[2])][1].items = RecordNoBaseline
    /\ DictGet(results_fs[out_path(videos[1])].items, "baseline_tokens", 0) = 18
    /\ DictGet(results_fs[out_path(videos[1])].items, "info_density_baseline", Zero)
           = [num |-> 1, den |-> 4]

====
